---- MODULE Spec2Model ----
(***************************************************************************)
(* Model of operator/src/main/resources/scripts/stop-server.py, the WLST   *)
(* script the preStop hook runs to stop the local WebLogic server.         *)
(*                                                                         *)
(* One action per remote call of the script (connect, domainRuntime,       *)
(* queryMBeans, getAttribute, shutdown, nmConnect, nmKill) together with   *)
(* the local code that runs up to the next remote call, exception handlers *)
(* included.  Strings the script converts (lower(), int()) are sequences   *)
(* of one-character strings; config.xml is a sequence of lexical tokens.   *)
(***************************************************************************)
EXTENDS Integers, Sequences, FiniteSets, TLC

VARIABLES
  pc,                 \* position of the script: the call it is about to make
  environ,            \* os.environ, as far as the script reads it
  configFile,         \* DOMAIN_HOME/config/config.xml: [readable, data]
  haStatus,           \* remote: HAStatus attribute of every Coherence service
  force,              \* line 202
  cohExists,          \* line 217
  connect_url,        \* lines 222, 231
  stayInConnectLoop,  \* line 235
  cohSafe,            \* line 236
  done,               \* line 119
  warnSleep,          \* line 120
  notices,            \* history: wait notices of line 128 printed by this wait
  beans,              \* line 123
  idx,                \* position of the for loop of line 135 in beans
  exitStatus,         \* status the process exited with, -1 while it runs
  connectCalls,       \* history: number of connect() calls
  targets,            \* history: the urls connect() was called with
  waitCalls,          \* history: number of waitUntilCoherenceSafe() calls
  waitReturns,        \* history: number of times waitUntilCoherenceSafe returned
  shutdownCalls,      \* history: number of shutdown() calls
  shutdownForce,      \* history: force argument of the last shutdown() call
  shutdownOk,         \* history: a shutdown() call returned normally
  nmConnectCalls,     \* history: number of nmConnect() calls
  nmKillCalls,        \* history: number of nmKill() calls
  fallback,           \* history: outcome of shutdownUsingNodeManager
  iter,               \* history: what the current loop iteration has done
  obs,                \* history: last HAStatus read per service in this pass
  lastCall            \* history: the last remote call and whether it raised

vars == <<pc, environ, configFile, haStatus, force, cohExists, connect_url,
          stayInConnectLoop, cohSafe, done, warnSleep, notices, beans, idx,
          exitStatus, connectCalls, targets, waitCalls, waitReturns, shutdownCalls, shutdownForce,
          shutdownOk, nmConnectCalls, nmKillCalls, fallback, iter, obs,
          lastCall>>

-----------------------------------------------------------------------------
(* Bounds of the model *)

\* connect() attempts after which the model stops retrying
MaxConnects == 3
\* longest config.xml, in tokens, the topology specification draws
MaxDocLen == 5

-----------------------------------------------------------------------------
(* Strings *)

UpperCase == <<"A","B","C","D","E","F","G","H","I","J","K","L","M",
               "N","O","P","Q","R","S","T","U","V","W","X","Y","Z">>
LowerCase == <<"a","b","c","d","e","f","g","h","i","j","k","l","m",
               "n","o","p","q","r","s","t","u","v","w","x","y","z">>
Digits == {"0","1","2","3","4","5","6","7","8","9"}

LowerChar(c) ==
  IF \E i \in DOMAIN UpperCase : UpperCase[i] = c
  THEN LowerCase[CHOOSE i \in DOMAIN UpperCase : UpperCase[i] = c]
  ELSE c

\* str.lower()
Lower(s) == [i \in DOMAIN s |-> LowerChar(s[i])]

\* int(s) returns (TRUE) or raises ValueError (FALSE); an optional sign, then
\* at least one digit.  The inputs drawn carry no surrounding white space.
IntParses(s) ==
  LET body == IF Len(s) > 0 /\ s[1] \in {"+", "-"} THEN Tail(s) ELSE s
  IN  Len(body) > 0 /\ \A i \in DOMAIN body : body[i] \in Digits

Forced == <<"f","o","r","c","e","d">>

-----------------------------------------------------------------------------
(* Inputs *)

ShutdownTypes == { <<"F","o","r","c","e","d">>, Forced,
                   <<"F","O","R","C","E","D">>,
                   <<"G","r","a","c","e","f","u","l">> }
Timeouts == { <<"3","0">>, <<"3","0","s">> }
ServerNames == {"admin-server", "managed-server1"}
\* the first variable getEnvVar finds unset, "" when all are set
MissingVars == {"", "DOMAIN_UID", "SHUTDOWN_TYPE_ARG", "AS_SERVICE_NAME"}

Environments ==
  [ missing : MissingVars,
    ADMIN_NAME : {"admin-server"},
    SERVER_NAME : ServerNames,
    SERVICE_NAME : {"managed-svc"},
    SHUTDOWN_PORT_ARG : {"8001"},
    SHUTDOWN_PROTOCOL_ARG : {"t3"},
    SHUTDOWN_TIMEOUT_ARG : Timeouts,
    SHUTDOWN_TYPE_ARG : ShutdownTypes,
    ADMIN_PORT : {"7001"},
    AS_SERVICE_NAME : {"admin-svc"} ]

Services == {"s1", "s2"}
\* "None" stands for Python's None
HAStatusValues == {"ENDANGERED", "NODE-SAFE", "None"}

\* what queryMBeans can return: the services in any order, none twice
BeanLists ==
  { s \in UNION { [1..n -> Services] : n \in 0..Cardinality(Services) } :
      \A i, j \in DOMAIN s : i # j => s[i] # s[j] }

-----------------------------------------------------------------------------
(* config.xml and the topology detector *)

\* "OPEN" is <coherence-cluster-system-resource>, "CLOSE" is
\* </coherence-cluster-system-resource>, "WS" one white-space character,
\* "CH" one other character
Tokens == {"OPEN", "CLOSE", "WS", "CH"}

\* len(ELEMENT_NAME)
ElementNameLen == 33

TokenLen(t) ==
  CASE t = "OPEN" -> ElementNameLen + 2
    [] t = "CLOSE" -> ElementNameLen + 3
    [] OTHER -> 1

RECURSIVE CharLen(_)
CharLen(s) == IF s = <<>> THEN 0 ELSE TokenLen(Head(s)) + CharLen(Tail(s))

Docs(n) == UNION { [1..k -> Tokens] : k \in 0..n }

IsData(t) == t # "WS"

\* ''.join(configData.split())
Spaceless(configData) == SelectSeq(configData, IsData)

\* non-empty content of the matched element: line 86
NonEmpty(first, last) == (last - first - 5) > (2 * ElementNameLen)

\* re.search of line 80: the leftmost opening tag that some closing tag
\* follows, up to the first closing tag after it (the *? is not greedy)
checkCoherenceClusterExist(configData) ==
  LET spacelessData == Spaceless(configData)
      starts == { i \in DOMAIN spacelessData :
                    /\ spacelessData[i] = "OPEN"
                    /\ \E j \in DOMAIN spacelessData :
                         j > i /\ spacelessData[j] = "CLOSE" }
  IN  IF starts = {}
      THEN FALSE
      ELSE LET i == CHOOSE a \in starts : \A b \in starts : a <= b
               j == CHOOSE a \in DOMAIN spacelessData :
                      /\ a > i /\ spacelessData[a] = "CLOSE"
                      /\ \A b \in DOMAIN spacelessData :
                           (b > i /\ spacelessData[b] = "CLOSE") => a <= b
               first == CharLen(SubSeq(spacelessData, 1, i - 1))
               last == CharLen(SubSeq(spacelessData, 1, j))
           IN  NonEmpty(first, last)

\* lines 61-69: an unreadable file is answered True
doesCoherenceExist(file) ==
  IF file.readable THEN checkCoherenceClusterExist(file.data) ELSE TRUE

PyBool(b) == IF b THEN "True" ELSE "False"

Unreadable == [readable |-> FALSE, data |-> <<>>]
File(d) == [readable |-> TRUE, data |-> d]

\* the files the run specification draws
RunConfigs ==
  { Unreadable,
    File(<<>>),
    File(<<"OPEN", "CLOSE">>),
    File(<<"CH", "OPEN", "WS", "CH", "CLOSE">>) }

\* the files the topology specification draws
AllConfigs == { Unreadable } \cup { File(d) : d \in Docs(MaxDocLen) }

-----------------------------------------------------------------------------
(* The script *)

server_name == environ.SERVER_NAME
admin_name == environ.ADMIN_NAME

\* the comparison of line 203 without lower()
InitialForceCaseSensitive(shutdown_type) ==
  IF shutdown_type = Forced THEN "true" ELSE "false"

\* lines 202-204
InitialForce(shutdown_type) ==
  IF Lower(shutdown_type) = Forced THEN "true" ELSE "false"

\* lines 226-227
EscalatedForce(exists, current) ==
  IF exists /\ admin_name = server_name THEN "true" ELSE current

\* line 231 taken on both branches
ConnectUrlLocalOnly(exists) ==
  <<environ.SHUTDOWN_PROTOCOL_ARG, environ.SERVICE_NAME, environ.SHUTDOWN_PORT_ARG>>

\* lines 222, 231: protocol + '://' + host + ':' + port
ConnectUrl(exists) ==
  IF exists
  THEN <<environ.SHUTDOWN_PROTOCOL_ARG, environ.AS_SERVICE_NAME, environ.ADMIN_PORT>>
  ELSE <<environ.SHUTDOWN_PROTOCOL_ARG, environ.SERVICE_NAME, environ.SHUTDOWN_PORT_ARG>>

\* line 249 skipping the wait when the stop is forced
AwaitSafetyUnlessForced == cohExists = "True" /\ force # "true"

\* line 249
AwaitSafety == cohExists = "True"

\* line 260 giving up after the second attempt
RetryConnectTwice == cohExists = "True" /\ ~cohSafe /\ connectCalls < 2

\* line 260 without the cohSafe test
RetryConnectAlways == cohExists = "True"

\* line 260 without the cohExists test
RetryConnectUnlessSafe == ~cohSafe

\* line 260
RetryConnect == cohExists = "True" /\ ~cohSafe

\* line 168 with the comparison inverted
IsSafeStatusInverted(status) == status = "None" \/ status = "ENDANGERED"

\* lines 163-169: the reads that end the polling of one service
IsSafeStatus(status) == status = "None" \/ status # "ENDANGERED"

\* line 269 exiting like line 267
FallbackExitAlwaysZero(ok) == 0

\* exit() of line 267 and exit(2) of line 269
FallbackExit(ok) == IF ok THEN 0 ELSE 2

NoObs == [s \in Services |-> "unobserved"]
NoCall == [op |-> "none", raised |-> FALSE]
Call(op, ok) == [op |-> op, raised |-> ~ok]

inputs == <<environ, configFile>>
topology == <<force, cohExists, connect_url>>
poller == <<done, warnSleep, notices, beans, idx, obs>>
nmHist == <<nmConnectCalls, nmKillCalls, fallback>>
stopHist == <<shutdownCalls, shutdownForce, shutdownOk>>
loopHist == <<connectCalls, targets, waitCalls, waitReturns, iter>>

TypeOK ==
  /\ pc \in {"env", "decode", "detect", "connect", "domainRuntime", "query",
             "getAttribute", "shutdown", "nmConnect", "nmKill", "exited"}
  /\ environ \in Environments
  /\ configFile \in AllConfigs
  /\ haStatus \in [Services -> HAStatusValues]
  /\ force \in {"unbound", "true", "false"}
  /\ cohExists \in {"unbound", "True", "False"}
  /\ stayInConnectLoop \in BOOLEAN /\ cohSafe \in BOOLEAN
  /\ done \in BOOLEAN /\ warnSleep \in BOOLEAN
  /\ beans \in BeanLists
  /\ idx \in 1..(Cardinality(Services) + 1)
  /\ exitStatus \in {-1, 0, 1, 2}
  /\ connectCalls \in 0..MaxConnects
  /\ obs \in [Services -> HAStatusValues \cup {"unobserved"}]

InitRun ==
  /\ pc = "env"
  /\ haStatus \in [Services -> HAStatusValues]
  /\ force = "unbound" /\ cohExists = "unbound" /\ connect_url = <<>>
  /\ stayInConnectLoop = FALSE /\ cohSafe = FALSE
  /\ done = FALSE /\ warnSleep = FALSE /\ notices = 0
  /\ beans = <<>> /\ idx = 1
  /\ exitStatus = -1
  /\ connectCalls = 0 /\ targets = {} /\ waitCalls = 0 /\ waitReturns = 0
  /\ shutdownCalls = 0 /\ shutdownForce = "none" /\ shutdownOk = FALSE
  /\ nmConnectCalls = 0 /\ nmKillCalls = 0 /\ fallback = "none"
  /\ iter = [connected |-> FALSE, waited |-> FALSE]
  /\ obs = NoObs
  /\ lastCall = NoCall

Init ==
  /\ environ \in Environments
  /\ configFile \in RunConfigs
  /\ InitRun

\* getEnvVar checking the first variable only
AnyUnsetFirstOnly == environ.missing = "DOMAIN_UID"

\* lines 33-36, over the calls of lines 187-200
AnyUnset == environ.missing # ""

\* lines 187-204: every getEnvVar, then the configured force
ReadEnv ==
  /\ pc = "env"
  /\ IF AnyUnset
     THEN /\ pc' = "exited"
          /\ exitStatus' = 1
          /\ UNCHANGED force
     ELSE /\ pc' = "decode"
          /\ force' = InitialForce(environ.SHUTDOWN_TYPE_ARG)
          /\ UNCHANGED exitStatus
  /\ UNCHANGED <<inputs, haStatus, cohExists, connect_url, stayInConnectLoop,
                 cohSafe, poller, loopHist, stopHist, nmHist, lastCall>>

\* lines 207-214: the key file is decoded, or an exception no handler
\* catches ends the interpreter (status 1)
DecodeKey ==
  /\ pc = "decode"
  /\ \E ok \in BOOLEAN :
       IF ok
       THEN pc' = "detect" /\ UNCHANGED exitStatus
       ELSE pc' = "exited" /\ exitStatus' = 1
  /\ UNCHANGED <<inputs, haStatus, topology, stayInConnectLoop, cohSafe,
                 poller, loopHist, stopHist, nmHist, lastCall>>

\* lines 217-236: topology, target and force, then the loop's flags
Detect ==
  /\ pc = "detect"
  /\ LET exists == doesCoherenceExist(configFile)
     IN  /\ cohExists' = PyBool(exists)
         /\ connect_url' = ConnectUrl(exists)
         /\ force' = EscalatedForce(exists, force)
  /\ stayInConnectLoop' = TRUE
  /\ cohSafe' = FALSE
  /\ pc' = "connect"
  /\ UNCHANGED <<inputs, haStatus, poller, exitStatus, loopHist, stopHist,
                 nmHist, lastCall>>

\* lines 257-269, up to the call of shutdownUsingNodeManager
ExceptInLoop ==
  /\ stayInConnectLoop' = RetryConnect
  /\ pc' = IF RetryConnect THEN "connect" ELSE "nmConnect"

\* lines 237-250: one turn of the loop up to the end of connect(), which
\* becomes call number n
ConnectTurn(n) ==
  /\ pc = "connect" /\ stayInConnectLoop
  /\ connectCalls' = n
  /\ targets' = targets \cup {connect_url}
  /\ \E ok \in BOOLEAN :
       /\ lastCall' = Call("connect", ok)
       /\ iter' = [connected |-> ok, waited |-> FALSE]
       /\ IF ok
          THEN /\ stayInConnectLoop' = FALSE
               /\ pc' = IF AwaitSafety THEN "domainRuntime" ELSE "shutdown"
               /\ waitCalls' = IF AwaitSafety /\ waitCalls < n
                               THEN waitCalls + 1 ELSE waitCalls
          ELSE /\ ExceptInLoop
               /\ UNCHANGED waitCalls
  /\ UNCHANGED <<inputs, haStatus, topology, cohSafe, poller, exitStatus,
                 waitReturns, stopHist, nmHist>>

\* the loop of line 237, followed for MaxConnects turns
Connect ==
  /\ connectCalls < MaxConnects
  /\ ConnectTurn(connectCalls + 1)

\* the loop of line 237 with no limit; the counts stop at MaxConnects
ConnectLoop ==
  ConnectTurn(IF connectCalls < MaxConnects THEN connectCalls + 1 ELSE connectCalls)

\* lines 105-120: domainRuntime() is outside the poller's try
DomainRuntime ==
  /\ pc = "domainRuntime"
  /\ \E ok \in BOOLEAN :
       /\ lastCall' = Call("domainRuntime", ok)
       /\ IF ok
          THEN /\ done' = FALSE /\ warnSleep' = TRUE /\ notices' = 0
               /\ beans' = <<>> /\ idx' = 1 /\ obs' = NoObs
               /\ pc' = "query"
               /\ UNCHANGED stayInConnectLoop
          ELSE /\ ExceptInLoop
               /\ UNCHANGED poller
  /\ UNCHANGED <<inputs, haStatus, topology, cohSafe, exitStatus, loopHist,
                 stopHist, nmHist>>

\* lines 127-129 without the assignment of line 129
AfterEmptyResultKeepsWarning(warn) ==
  [notice |-> warn, warnSleep |-> warn]

\* lines 127-129: whether the notice is printed, and warnSleep afterwards
AfterEmptyResult(warn) ==
  [notice |-> warn, warnSleep |-> IF warn THEN FALSE ELSE warn]

\* lines 121-136 and 141-146: one bean query
Query ==
  /\ pc = "query"
  /\ \/ /\ lastCall' = Call("queryMBeans", FALSE)
        /\ pc' = "query"
        /\ UNCHANGED poller
     \/ \E result \in BeanLists :
          /\ lastCall' = Call("queryMBeans", TRUE)
          /\ beans' = result
          /\ obs' = NoObs
          /\ idx' = 1
          /\ IF Len(result) = 0
             THEN /\ pc' = "query"
                  /\ warnSleep' = AfterEmptyResult(warnSleep).warnSleep
                  /\ notices' = IF AfterEmptyResult(warnSleep).notice
                                 THEN notices + 1 ELSE notices
             ELSE pc' = "getAttribute" /\ UNCHANGED <<warnSleep, notices>>
          /\ UNCHANGED done
  /\ UNCHANGED <<inputs, haStatus, topology, stayInConnectLoop, cohSafe,
                 exitStatus, loopHist, stopHist, nmHist>>

\* lines 160-180 for the service at idx, then lines 135-139 and 251
GetAttribute ==
  /\ pc = "getAttribute"
  /\ \/ /\ lastCall' = Call("getAttribute", FALSE)
        /\ pc' = "getAttribute"
        /\ UNCHANGED <<poller, cohSafe, waitReturns, iter>>
     \/ LET status == haStatus[beans[idx]]
        IN  /\ lastCall' = Call("getAttribute", TRUE)
            /\ obs' = [obs EXCEPT ![beans[idx]] = status]
            /\ IF ~IsSafeStatus(status)
               THEN /\ pc' = "getAttribute"
                    /\ UNCHANGED <<idx, done, cohSafe, waitReturns, iter>>
               ELSE IF idx < Len(beans)
               THEN /\ pc' = "getAttribute"
                    /\ idx' = idx + 1
                    /\ UNCHANGED <<done, cohSafe, waitReturns, iter>>
               ELSE /\ pc' = "shutdown"
                    /\ idx' = idx + 1
                    /\ done' = TRUE
                    /\ cohSafe' = TRUE
                    /\ waitReturns' = waitReturns + 1
                    /\ iter' = [iter EXCEPT !.waited = TRUE]
            /\ UNCHANGED <<warnSleep, notices, beans>>
  /\ UNCHANGED <<inputs, haStatus, topology, stayInConnectLoop, exitStatus,
                 connectCalls, targets, waitCalls, stopHist, nmHist>>

\* lines 253-255 and 272: int(timeout), then shutdown()
Shutdown ==
  /\ pc = "shutdown"
  /\ IF ~IntParses(environ.SHUTDOWN_TIMEOUT_ARG)
     THEN /\ ExceptInLoop
          /\ UNCHANGED <<stopHist, exitStatus, lastCall>>
     ELSE /\ shutdownCalls' = shutdownCalls + 1
          /\ shutdownForce' = force
          /\ \E ok \in BOOLEAN :
               /\ lastCall' = Call("shutdown", ok)
               /\ shutdownOk' = ok
               /\ IF ok
                  THEN /\ pc' = "exited" /\ exitStatus' = 0
                       /\ UNCHANGED stayInConnectLoop
                  ELSE /\ ExceptInLoop
                       /\ UNCHANGED exitStatus
  /\ UNCHANGED <<inputs, haStatus, topology, cohSafe, poller, loopHist, nmHist>>

\* lines 42-51 going on to nmKill when nmConnect raised
NmConnectSwallowed ==
  /\ pc = "nmConnect"
  /\ nmConnectCalls' = nmConnectCalls + 1
  /\ \E ok \in BOOLEAN : lastCall' = Call("nmConnect", ok)
  /\ pc' = "nmKill"
  /\ UNCHANGED <<inputs, haStatus, topology, stayInConnectLoop, cohSafe,
                 poller, loopHist, stopHist, nmKillCalls, fallback, exitStatus>>

\* lines 42-51, and 54-57 with 268-269 when nmConnect raises
NmConnect ==
  /\ pc = "nmConnect"
  /\ nmConnectCalls' = nmConnectCalls + 1
  /\ \E ok \in BOOLEAN :
       /\ lastCall' = Call("nmConnect", ok)
       /\ IF ok
          THEN pc' = "nmKill" /\ UNCHANGED <<fallback, exitStatus>>
          ELSE /\ pc' = "exited" /\ fallback' = "failed"
               /\ exitStatus' = FallbackExit(FALSE)
  /\ UNCHANGED <<inputs, haStatus, topology, stayInConnectLoop, cohSafe,
                 poller, loopHist, stopHist, nmKillCalls>>

\* lines 52-57 and 267-269
NmKill ==
  /\ pc = "nmKill"
  /\ nmKillCalls' = nmKillCalls + 1
  /\ \E ok \in BOOLEAN :
       /\ lastCall' = Call("nmKill", ok)
       /\ fallback' = IF ok THEN "ok" ELSE "failed"
       /\ exitStatus' = FallbackExit(ok)
  /\ pc' = "exited"
  /\ UNCHANGED <<inputs, haStatus, topology, stayInConnectLoop, cohSafe,
                 poller, loopHist, stopHist, nmConnectCalls>>

\* the cluster rebalances: one service's HAStatus changes while the script runs
Rebalance ==
  /\ pc # "exited"
  /\ \E s \in Services, v \in HAStatusValues :
       /\ haStatus[s] # v
       /\ haStatus' = [haStatus EXCEPT ![s] = v]
  /\ UNCHANGED <<pc, inputs, topology, stayInConnectLoop, cohSafe, poller,
                 exitStatus, loopHist, stopHist, nmHist, lastCall>>

Next ==
  \/ ReadEnv
  \/ DecodeKey
  \/ Detect
  \/ Connect
  \/ DomainRuntime
  \/ Query
  \/ GetAttribute
  \/ Shutdown
  \/ NmConnect
  \/ NmKill
  \/ Rebalance

Spec == Init /\ [][Next]_vars

\* the run with the connect loop unlimited, for what it does eventually
InitLive ==
  /\ environ \in { e \in Environments :
                     /\ e.missing \in {"", "DOMAIN_UID"}
                     /\ e.SHUTDOWN_TYPE_ARG = <<"G","r","a","c","e","f","u","l">> }
  /\ configFile \in RunConfigs
  /\ InitRun

NextLive ==
  \/ ReadEnv
  \/ DecodeKey
  \/ Detect
  \/ ConnectLoop
  \/ DomainRuntime
  \/ Query
  \/ GetAttribute
  \/ Shutdown
  \/ NmConnect
  \/ NmKill
  \/ Rebalance

\* the script's next statement, whatever its outcome
ScriptStep ==
  \/ ReadEnv \/ DecodeKey \/ Detect \/ ConnectLoop \/ DomainRuntime
  \/ Query \/ GetAttribute \/ Shutdown \/ NmConnect \/ NmKill

\* the outcomes that let the safety wait go on
ConnectOk == ConnectLoop /\ lastCall' = Call("connect", TRUE)
DomainRuntimeOk == DomainRuntime /\ pc' = "query"
QueryFound == Query /\ pc' = "getAttribute"
GetAttributeRead == GetAttribute /\ lastCall' = Call("getAttribute", TRUE)

\* the process is not killed and keeps running; connect(), domainRuntime(),
\* a non-empty queryMBeans() and getAttribute() do not fail for ever
SpecLive ==
  /\ InitLive /\ [][NextLive]_vars
  /\ WF_vars(ScriptStep)
  /\ SF_vars(ConnectOk) /\ SF_vars(DomainRuntimeOk)
  /\ SF_vars(QueryFound) /\ SF_vars(GetAttributeRead)

\* the topology detector alone, applied to every config.xml up to MaxDocLen
InitDetect ==
  /\ environ \in { e \in Environments :
                     /\ e.missing = ""
                     /\ e.SHUTDOWN_TYPE_ARG = Forced
                     /\ e.SHUTDOWN_TIMEOUT_ARG = <<"3","0">> }
  /\ configFile \in AllConfigs
  /\ InitRun

NextDetect ==
  \/ ReadEnv
  \/ DecodeKey
  \/ Detect

SpecDetect == InitDetect /\ [][NextDetect]_vars

-----------------------------------------------------------------------------
(* Properties *)

InPoller == pc \in {"domainRuntime", "query", "getAttribute"}
InFallback == pc \in {"nmConnect", "nmKill"}
IsAdminServer == admin_name = server_name
ForcedMode ==
  environ.SHUTDOWN_TYPE_ARG \in { <<"F","o","r","c","e","d">>,
                                  <<"f","o","r","c","e","d">>,
                                  <<"F","O","R","C","E","D">> }

\* C1: with a data grid, shutdown() is about to be or has been called only
\* in a loop iteration whose connect() succeeded and whose
\* waitUntilCoherenceSafe() returned, whatever the shutdown mode
C1_StopOnlyAfterSafetyWait ==
  (cohExists = "True" /\ (pc = "shutdown" \/ shutdownCalls > 0))
    => (iter.connected /\ iter.waited /\ waitReturns > 0)

\* a forced stop of the admin server with a data grid, issued on the second
\* connection after the safety wait
C1_Witness ==
  /\ cohExists = "True" /\ shutdownCalls = 1 /\ shutdownForce = "true"
  /\ IsAdminServer /\ connectCalls = 2 /\ iter.waited

\* C2: while a data grid exists and safety was never confirmed, no step
\* enters the NodeManager fallback or exits, and a failing connect() or a
\* failing entry into the safety wait leads back to the connect loop
C2_FailuresBeforeSafetyRetry ==
  [][ (cohExists = "True" /\ ~cohSafe) =>
        /\ pc' \notin {"nmConnect", "nmKill", "exited"}
        /\ nmConnectCalls' = 0 /\ exitStatus' = -1
        /\ (/\ pc \in {"connect", "domainRuntime"}
            /\ lastCall' \in {Call("connect", FALSE), Call("domainRuntime", FALSE)}
            /\ haStatus' = haStatus)
             => (pc' = "connect" /\ stayInConnectLoop') ]_vars

\* every connect() of the run failed, the last of MaxConnects just now
C2_Witness ==
  /\ cohExists = "True" /\ ~cohSafe /\ waitCalls = 0
  /\ connectCalls >= 3 /\ lastCall = Call("connect", FALSE)
  /\ pc = "connect" /\ stayInConnectLoop

\* C3: once cohSafe is true there is no further connect() and no further
\* safety wait, and a failing graceful stop goes straight to the fallback
C3_FailureAfterSafetyFallsBack ==
  [][ cohSafe =>
        /\ connectCalls' = connectCalls /\ waitCalls' = waitCalls
        /\ pc' \notin {"connect", "domainRuntime", "query", "getAttribute"}
        /\ (pc = "shutdown" /\ pc' # "shutdown" /\ ~shutdownOk')
             => (pc' = "nmConnect" /\ ~stayInConnectLoop') ]_vars

\* the graceful stop failed after safety was confirmed
C3_Witness ==
  /\ cohSafe /\ pc = "nmConnect" /\ lastCall = Call("shutdown", FALSE)
  /\ shutdownCalls = 1

\* C4: without a data grid connect() is attempted exactly once, the safety
\* poller is never entered, and the run ends with the fallback invoked once
\* exactly when connect() or shutdown() failed
C4_NoGridSingleAttempt ==
  cohExists = "False" =>
    /\ connectCalls <= 1 /\ waitCalls = 0 /\ ~InPoller
    /\ nmConnectCalls <= 1 /\ nmKillCalls <= 1
    /\ (pc \in {"shutdown", "nmConnect", "nmKill", "exited"} => connectCalls = 1)
    /\ (pc = "connect" => connectCalls = 0)
    /\ (InFallback => ~shutdownOk)
    /\ (pc = "exited" => (shutdownOk <=> nmConnectCalls = 0))

\* no data grid, connect() failed, the server was killed through NodeManager
C4_Witness ==
  /\ cohExists = "False" /\ pc = "exited" /\ lastCall = Call("nmKill", TRUE)
  /\ shutdownCalls = 0 /\ connectCalls = 1 /\ nmConnectCalls = 1

\* C5: a run that read all its environment exits with 0 exactly when the
\* graceful stop or the fallback kill succeeded and with 2 exactly when the
\* fallback was invoked and failed; a successful graceful stop excludes the
\* fallback
C5_ExitStatus ==
  (pc = "exited" /\ environ.missing = "") =>
    /\ exitStatus = 0 <=> (shutdownOk \/ fallback = "ok")
    /\ exitStatus = 2 <=> (nmConnectCalls > 0 /\ fallback = "failed")
    /\ shutdownOk => (nmConnectCalls = 0 /\ fallback = "none")

\* the fallback was invoked and nmKill failed
C5_Witness ==
  /\ pc = "exited" /\ environ.missing = "" /\ exitStatus = 2
  /\ nmKillCalls = 1 /\ fallback = "failed"

PassSafe ==
  /\ Len(beans) > 0
  /\ \A i \in DOMAIN beans : obs[beans[i]] \in {"NODE-SAFE", "None"}

\* C6: waitUntilCoherenceSafe has returned only if the last bean query was
\* not empty and the last HAStatus read of each of its services was not
\* ENDANGERED, and it is no longer polling once a pass is such
C6_ReturnsOnFirstSafePass ==
  /\ (waitReturns > 0 \/ done) => PassSafe
  /\ (pc \in {"query", "getAttribute"}) => (~PassSafe /\ ~done)
  /\ (\E i \in DOMAIN beans : obs[beans[i]] = "ENDANGERED")
       => (waitReturns = 0 /\ pc = "getAttribute")

\* returned after a pass over two services, one absent and one safe
C6_Witness ==
  /\ waitReturns = 1 /\ done /\ Len(beans) = 2
  /\ obs[beans[1]] = "None" /\ obs[beans[2]] = "NODE-SAFE"

\* C7 as claimed: a query that raises inside the safety poller, a read of
\* HAStatus included, is followed by a fresh bean query
C7_ExceptionRestartsEnumeration ==
  [][ (/\ pc \in {"query", "getAttribute"}
       /\ lastCall' \in {Call("queryMBeans", FALSE), Call("getAttribute", FALSE)}
       /\ haStatus' = haStatus)
        => pc' = "query" ]_vars

RECURSIVE Depth(_)
\* opening tags minus closing tags
Depth(d) ==
  IF d = <<>> THEN 0
  ELSE Depth(SubSeq(d, 1, Len(d) - 1))
         + (CASE d[Len(d)] = "OPEN" -> 1 [] d[Len(d)] = "CLOSE" -> -1 [] OTHER -> 0)

\* every opening tag is closed before the next one opens
WellFormed(d) ==
  /\ Depth(d) = 0
  /\ \A n \in 0..Len(d) : Depth(SubSeq(d, 1, n)) \in {0, 1}

\* some element of the document holds a character that is not white space
HasNonEmptyElement(d) ==
  \E i, j \in DOMAIN d :
    /\ i < j /\ d[i] = "OPEN" /\ d[j] = "CLOSE"
    /\ \A k \in (i + 1)..(j - 1) : d[k] \notin {"OPEN", "CLOSE"}
    /\ \E k \in (i + 1)..(j - 1) : d[k] = "CH"

\* C8 as claimed: a readable document is answered True exactly when one of
\* its coherence-cluster-system-resource elements has content
C8_DetectsAnyNonEmptyElement ==
  (cohExists # "unbound" /\ configFile.readable /\ WellFormed(configFile.data))
    => (cohExists = "True" <=> HasNonEmptyElement(configFile.data))

\* C9 as claimed: an unreadable or malformed config.xml is answered True
C9_FailSafeOnBadDocument ==
  (cohExists # "unbound"
     /\ (~configFile.readable \/ ~WellFormed(configFile.data)))
    => cohExists = "True"

\* C10: the force passed to shutdown() is 'true' exactly for a forced mode
\* in any letter case or for the admin server of a domain with a data grid
C10_ForceArgument ==
  shutdownCalls > 0 =>
    /\ shutdownForce \in {"true", "false"}
    /\ shutdownForce = "true"
         <=> (ForcedMode \/ (cohExists = "True" /\ IsAdminServer))

\* a graceful mode escalated for the admin server
C10_Witness ==
  /\ shutdownCalls > 0 /\ shutdownForce = "true" /\ ~ForcedMode
  /\ cohExists = "True" /\ IsAdminServer

\* a mode spelled FORCED, no data grid
C10_WitnessUpperCase ==
  /\ shutdownCalls > 0 /\ shutdownForce = "true"
  /\ environ.SHUTDOWN_TYPE_ARG = <<"F","O","R","C","E","D">>
  /\ cohExists = "False"

InRetryLoop == pc \in {"connect", "domainRuntime", "query", "getAttribute"}

\* C11: with a data grid, as long as safety has not been achieved the
\* script is in the connect / safety-wait loop: no graceful stop, no
\* fallback, no exit
C11_UnsafeRunStaysInLoop ==
  (cohExists = "True" /\ waitReturns = 0) =>
    /\ InRetryLoop
    /\ shutdownCalls = 0 /\ nmConnectCalls = 0 /\ nmKillCalls = 0
    /\ fallback = "none" /\ exitStatus = -1
    /\ (pc = "connect" => stayInConnectLoop)

\* a second connection polls a service that was read ENDANGERED
C11_Witness ==
  /\ cohExists = "True" /\ waitReturns = 0 /\ connectCalls = 2
  /\ pc = "getAttribute" /\ obs[beans[idx]] = "ENDANGERED"

\* C12: an empty bean query keeps the poller querying and is never taken
\* for safety, and one wait prints the notice of line 128 at most once
C12_EmptyQueryWaitsQuietly ==
  [][ /\ notices' <= 1
      /\ (/\ pc = "query" /\ lastCall' = Call("queryMBeans", TRUE)
          /\ beans' = <<>> /\ haStatus' = haStatus)
           => /\ pc' = "query" /\ ~done' /\ ~cohSafe'
              /\ waitReturns' = waitReturns
              /\ notices' = 1 /\ ~warnSleep' ]_vars

\* the poller is back at the query after an empty result and its notice
C12_Witness ==
  /\ pc = "query" /\ notices = 1 /\ ~warnSleep /\ beans = <<>>
  /\ lastCall = Call("queryMBeans", TRUE) /\ ~done /\ ~cohSafe

\* C13: shutdown() is called at most once in a run, never more often than
\* connect(), and nmKill() at most once
C13_MutatingCallsOnce ==
  /\ shutdownCalls <= 1
  /\ shutdownCalls <= connectCalls
  /\ nmKillCalls <= 1

\* both mutating calls were issued, after a connect retry
C13_Witness ==
  /\ shutdownCalls = 1 /\ nmKillCalls = 1 /\ connectCalls >= 2

\* C14: cohSafe starts false, is never reset, becomes true only as
\* waitUntilCoherenceSafe returns, at most once; a run with a data grid
\* that stopped the server gracefully confirmed safety exactly once
C14_CohSafeMonotone ==
  /\ [](/\ waitReturns <= 1
        /\ cohSafe <=> waitReturns = 1
        /\ pc \in {"env", "decode", "detect"} => ~cohSafe
        /\ (cohExists = "True" /\ shutdownOk) => waitReturns = 1)
  /\ [][ /\ cohSafe => cohSafe'
         /\ (~cohSafe /\ cohSafe')
              => /\ pc = "getAttribute" /\ done'
                 /\ waitReturns' = waitReturns + 1 ]_vars

\* a graceful stop on the second connection, the first safety wait
\* having been given up
C14_Witness ==
  /\ cohExists = "True" /\ shutdownOk /\ cohSafe
  /\ waitCalls = 2 /\ waitReturns = 1

AdminEndpoint == <<"t3", "admin-svc", "7001">>
LocalEndpoint == <<"t3", "managed-svc", "8001">>

\* C15: topology, url and force are set before the first connect() and
\* never change afterwards; every connect() goes to the admin endpoint
\* with a data grid and to the local endpoint without
C15_TopologyFixed ==
  /\ [](/\ connectCalls > 0 => cohExists # "unbound"
        /\ pc \in {"env", "decode", "detect"} => connectCalls = 0
        /\ cohExists = "True" => targets \subseteq {AdminEndpoint}
        /\ cohExists = "False" => targets \subseteq {LocalEndpoint}
        /\ cohExists = "unbound" => targets = {})
  /\ [][ pc \notin {"env", "decode", "detect"}
           => UNCHANGED <<cohExists, connect_url, force>> ]_vars

\* the third connect() of a run with a data grid
C15_Witness ==
  /\ cohExists = "True" /\ connectCalls = 3 /\ targets = {AdminEndpoint}

\* C16: nmConnect is attempted at most once, nmKill only after nmConnect
\* returned, and a failure of either ends the run with status 2
C16_FallbackNoRetry ==
  /\ [](/\ nmConnectCalls <= 1 /\ nmKillCalls <= nmConnectCalls
        /\ pc = "nmKill" => lastCall = Call("nmConnect", TRUE)
        /\ fallback = "failed" => (pc = "exited" /\ exitStatus = 2))
  /\ [][ /\ nmKillCalls' > nmKillCalls => lastCall = Call("nmConnect", TRUE)
         /\ (/\ InFallback
             /\ lastCall' \in {Call("nmConnect", FALSE), Call("nmKill", FALSE)}
             /\ haStatus' = haStatus)
              => (pc' = "exited" /\ exitStatus' = 2 /\ fallback' = "failed")
         /\ pc = "exited" => UNCHANGED vars ]_vars

\* nmConnect raised: nmKill was never issued
C16_Witness ==
  /\ pc = "exited" /\ nmConnectCalls = 1 /\ nmKillCalls = 0
  /\ lastCall = Call("nmConnect", FALSE) /\ exitStatus = 2

\* C17 as claimed: when waitUntilCoherenceSafe returns no service of the
\* pass is ENDANGERED
C17_NoServiceEndangeredAtReturn ==
  [][ (pc = "getAttribute" /\ pc' = "shutdown")
        => \A i \in DOMAIN beans' : haStatus'[beans'[i]] # "ENDANGERED" ]_vars

\* C18 as claimed: with a data grid the fallback runs only after a
\* completed safety wait and a shutdown() call that failed
C18_FallbackAfterFailedStopCall ==
  (cohExists = "True" /\ (InFallback \/ nmConnectCalls > 0))
    => (waitReturns > 0 /\ shutdownCalls > 0 /\ ~shutdownOk)

IntegerTimeout == environ.SHUTDOWN_TIMEOUT_ARG = <<"3","0">>

\* C18 amended: with a data grid the fallback runs only after a completed
\* safety wait and a graceful stop that failed, shutdown() having raised
\* or int(timeout) having raised before shutdown() was called
C18_FallbackAfterFailedStop ==
  (cohExists = "True" /\ (InFallback \/ nmConnectCalls > 0))
    => /\ waitReturns = 1 /\ cohSafe /\ iter.waited /\ ~shutdownOk
       /\ IF IntegerTimeout THEN shutdownCalls = 1 ELSE shutdownCalls = 0

\* the timeout is no integer: the fallback starts without a shutdown() call
C18_Witness ==
  /\ cohExists = "True" /\ pc = "nmConnect" /\ cohSafe /\ shutdownCalls = 0

\* C20: with an environment variable unset the script exits with status 1
\* from getEnvVar: no key decoding, no topology, no remote call
C20_UnsetVariableExitsFirst ==
  environ.missing # "" =>
    /\ pc \in {"env", "exited"}
    /\ pc = "exited" => exitStatus = 1
    /\ pc = "env" => exitStatus = -1
    /\ cohExists = "unbound" /\ force = "unbound" /\ connect_url = <<>>
    /\ lastCall = NoCall /\ connectCalls = 0 /\ shutdownCalls = 0
    /\ nmConnectCalls = 0 /\ nmKillCalls = 0

\* the last variable read is the one unset
C20_Witness ==
  /\ environ.missing = "AS_SERVICE_NAME" /\ pc = "exited" /\ exitStatus = 1

HealthStable == \A s \in Services : haStatus[s] # "ENDANGERED"

====
